---- MODULE Spec2Model ----
(***************************************************************************)
(* Model of the voting program (anchor/programs/voting/src/lib.rs).        *)
(*                                                                         *)
(* The ledger is a map from addresses to accounts.  An address is a        *)
(* program-derived address: the runtime hashes the seeds one after the     *)
(* other, without separators or length prefixes, together with the program *)
(* id.  The hash is taken to be collision resistant, so an address is      *)
(* represented by the byte string the hash is applied to: the              *)
(* concatenation of the seeds.  Two seed lists derive the same address     *)
(* exactly when their concatenations are equal.                            *)
(*                                                                         *)
(* Every instruction is one transaction: the accounts of its context are   *)
(* loaded and validated in the order of the fields of the Accounts struct, *)
(* then the handler runs, then the accounts are written back.  A failure   *)
(* anywhere leaves the ledger as it was.                                   *)
(***************************************************************************)
EXTENDS Integers, Sequences, FiniteSets, TLC

VARIABLES accounts, last, inflight, finished

vars == <<accounts, last, inflight, finished>>

----------------------------------------------------------------------------
(* Program constants *)

\* lib.rs:116  let max_reasonable_timestamp = 1893456000
max_reasonable_timestamp == 1893456000

\* lib.rs:128  u64::to_le_bytes yields 8 bytes
U64Bytes == 8

\* lib.rs:181  #[max_len(32)] candidate_name; it is also the longest seed the
\* runtime accepts, so a longer name neither derives an address nor fits
CandidateNameMaxLen == 32

\* lib.rs:206  #[max_len(200)] description
DescriptionMaxLen == 200

\* lib.rs:218  a Pubkey is 32 bytes
PubkeyBytes == 32

(* Bounds of the model *)

\* the ledger holds at most this many accounts (one per successful operation)
MaxAccounts == 5

\* vote transactions that may be submitted before any of them is executed
MaxInflight == 3

----------------------------------------------------------------------------
(* Bytes and seeds *)

Rep(b, n) == [i \in 1..n |-> b]

RECURSIVE LeBytes(_, _)
LeBytes(n, k) == IF k = 0 THEN <<>> ELSE <<n % 256>> \o LeBytes(n \div 256, k - 1)

PollIds == {1, 2}

\* the 8 little-endian bytes of every poll id of the model, computed once
LeBytesOf == [n \in PollIds |-> LeBytes(n, U64Bytes)]

\* poll_id.to_le_bytes()
to_le_bytes(n) == LeBytesOf[n]

RECURSIVE Concat(_)
Concat(seeds) == IF seeds = <<>> THEN <<>> ELSE Head(seeds) \o Concat(Tail(seeds))

\* seeds = [...], bump: the derived address; "NoAddress" when a seed is longer
\* than the runtime accepts
find_program_address(seeds) ==
    IF \E i \in 1..Len(seeds) : Len(seeds[i]) > CandidateNameMaxLen
    THEN "NoAddress"
    ELSE Concat(seeds)

PollSeeds(poll_id) == <<to_le_bytes(poll_id)>>
CandidateSeeds(poll_id, candidate_name) == <<to_le_bytes(poll_id), candidate_name>>
VoterRecordSeeds(signer, poll_id) == <<signer, to_le_bytes(poll_id)>>

PollAddress(poll_id) == find_program_address(PollSeeds(poll_id))
CandidateAddress(poll_id, candidate_name) ==
    find_program_address(CandidateSeeds(poll_id, candidate_name))
VoterRecordAddress(signer, poll_id) ==
    find_program_address(VoterRecordSeeds(signer, poll_id))

----------------------------------------------------------------------------
(* Inputs *)

\* "Apple", "Banana"
Apple == <<65, 112, 112, 108, 101>>
Banana == <<66, 97, 110, 97, 110, 97>>
EmptyName == <<>>
\* 33 bytes: one more than a seed may have
LongName == Rep(65, CandidateNameMaxLen + 1)
\* a 32-byte name ending in the little-endian bytes of poll id 1
TailName == Rep(65, PubkeyBytes - U64Bytes) \o to_le_bytes(1)

CandidateNames == {Apple, Banana, EmptyName, LongName, TailName}

Alice == Rep(10, PubkeyBytes)
Bob == Rep(11, PubkeyBytes)
\* a key whose first 8 bytes are the little-endian bytes of poll id 1 and
\* whose other bytes are text
Carol == to_le_bytes(1) \o Rep(65, PubkeyBytes - U64Bytes)

Signers == {Alice, Bob, Carol}

Timestamps == {0, 1000, 2000, max_reasonable_timestamp}

Dots50 == ".................................................."
\* 201 bytes: one more than the space of a Poll account holds
LongDescription == Dots50 \o Dots50 \o Dots50 \o Dots50 \o "."

\* the arguments CreatePoll is called with: every pair of timestamps with a
\* description that fits, and the description that does not fit with a valid
\* and with an invalid pair
PollArguments ==
    {<<"Best fruit", t1, t2>> : t1 \in Timestamps, t2 \in Timestamps}
    \cup {<<LongDescription, 1000, 2000>>, <<LongDescription, 0, 2000>>}

----------------------------------------------------------------------------
(* Accounts *)

\* an address nothing was created at (owned by the system program, no data)
NoAccount == [kind |-> "None"]

\* Pubkey::default()
DefaultPubkey == Rep(0, PubkeyBytes)

\* the ledger maps the addresses something was created at to their accounts
AccountAt(acc, a) == IF a \in DOMAIN acc THEN acc[a] ELSE NoAccount

\* the ledger after the account at a is written
Put(acc, a, account) ==
    [x \in DOMAIN acc \cup {a} |-> IF x = a THEN account ELSE acc[x]]

----------------------------------------------------------------------------
(* Outcomes.  The program's own errors keep their names; the framework's   *)
(* are named as the specification names them:                              *)
(*   "AlreadyExists"  init on an address that already holds an account     *)
(*   "NotFound"       Account<T> on an address that holds no account       *)
(*                    (AccountNotInitialized)                              *)
(*   "WrongAccount"   Account<T> on an account of another type             *)
(*                    (AccountDiscriminatorMismatch)                       *)
(*   "InvalidSeeds"   a seed longer than the runtime accepts               *)
(*   "DidNotSerialize" the account's data does not fit its space on exit   *)

\* #[account(mut, seeds = .., bump)] pub x: Account<'info, T>
LoadAccount(acc, a, kind) ==
    IF a = "NoAddress" THEN "InvalidSeeds"
    ELSE IF AccountAt(acc, a).kind = "None" THEN "NotFound"
    ELSE IF AccountAt(acc, a).kind # kind THEN "WrongAccount"
    ELSE "Ok"

\* init that does not look at what the address holds
InitAccount_overwrite(acc, a) ==
    IF a = "NoAddress" THEN "InvalidSeeds" ELSE "Ok"

\* #[account(init, payer = signer, space = .., seeds = .., bump)]
InitAccount(acc, a) ==
    IF a = "NoAddress" THEN "InvalidSeeds"
    ELSE IF AccountAt(acc, a).kind # "None" THEN "AlreadyExists"
    ELSE "Ok"

\* #[account(init_if_needed, payer = signer, space = .., seeds = .., bump)]
\* the account the handler sees, or the error of loading it
InitIfNeeded(acc, a, kind, fresh) ==
    IF a = "NoAddress" THEN [result |-> "InvalidSeeds", account |-> NoAccount]
    ELSE IF AccountAt(acc, a).kind = "None" THEN [result |-> "Ok", account |-> fresh]
    ELSE IF AccountAt(acc, a).kind # kind
         THEN [result |-> "WrongAccount", account |-> NoAccount]
    ELSE [result |-> "Ok", account |-> acc[a]]

\* the zeroed VoterRecord a fresh account deserializes to
FreshVoterRecord == [kind |-> "VoterRecord", voted |-> FALSE, poll |-> DefaultPubkey]

----------------------------------------------------------------------------
(* initialize_poll *)

\* the bound taken as a valid timestamp
is_valid_unix_timestamp_inclusive(timestamp) ==
    timestamp > 0 /\ timestamp <= max_reasonable_timestamp

is_valid_unix_timestamp(timestamp) ==
    timestamp > 0 /\ timestamp < max_reasonable_timestamp

\* the duration compared the wrong way round
initialize_poll_checks_flipped(poll_start, poll_end) ==
    IF ~is_valid_unix_timestamp(poll_start) \/ ~is_valid_unix_timestamp(poll_end)
    THEN "InvalidTimestamp"
    ELSE IF poll_start <= poll_end THEN "InvalidPollDuration"
    ELSE "Ok"

\* the duration checked before the timestamps
initialize_poll_checks_reordered(poll_start, poll_end) ==
    IF poll_start >= poll_end THEN "InvalidPollDuration"
    ELSE IF ~is_valid_unix_timestamp(poll_start) \/ ~is_valid_unix_timestamp(poll_end)
    THEN "InvalidTimestamp"
    ELSE "Ok"

\* the checks of the handler, in the order it makes them
initialize_poll_checks(poll_start, poll_end) ==
    IF ~is_valid_unix_timestamp(poll_start) \/ ~is_valid_unix_timestamp(poll_end)
    THEN "InvalidTimestamp"
    ELSE IF poll_start >= poll_end THEN "InvalidPollDuration"
    ELSE "Ok"

\* the check of lines 43-48 as it would run were it not a comment
initialize_poll_time_checks_enabled(current_time, poll_end) ==
    IF poll_end <= current_time THEN "PollEndedInPast" ELSE "Ok"

\* let current_time = Clock::get()..; if poll_end <= current_time { .. } is
\* commented out: nothing is read and nothing is checked
initialize_poll_time_checks(current_time, poll_end) == "Ok"

\* the Poll the handler writes
initialize_poll_record(poll_id, description, poll_start, poll_end) ==
    [kind |-> "Poll", poll_id |-> poll_id, description |-> description,
     poll_start |-> poll_start, poll_end |-> poll_end,
     candidate_amount |-> 0, total_votes |-> 0]

\* the Poll account is serialized into 8 + Poll::INIT_SPACE bytes on exit
PollFits(poll) == Len(poll.description) <= DescriptionMaxLen

\* the whole instruction, run when the cluster's clock says current_time:
\* [result, accounts]
InitializePollAt(acc, current_time, poll_id, description, poll_start, poll_end) ==
    LET a == PollAddress(poll_id)
        created == InitAccount(acc, a)
        checked == initialize_poll_checks(poll_start, poll_end)
        timed == initialize_poll_time_checks(current_time, poll_end)
        poll == initialize_poll_record(poll_id, description, poll_start, poll_end)
    IN  IF created # "Ok" THEN [result |-> created, accounts |-> acc]
        ELSE IF checked # "Ok" THEN [result |-> checked, accounts |-> acc]
        ELSE IF timed # "Ok" THEN [result |-> timed, accounts |-> acc]
        ELSE IF ~PollFits(poll) THEN [result |-> "DidNotSerialize", accounts |-> acc]
        ELSE [result |-> "Ok", accounts |-> Put(acc, a, poll)]

\* the instruction where the clock is not followed: the handler never reads it
InitializePoll(acc, poll_id, description, poll_start, poll_end) ==
    InitializePollAt(acc, 0, poll_id, description, poll_start, poll_end)

----------------------------------------------------------------------------
(* initialize_candidate *)

\* the Candidate the handler writes
initialize_candidate_record(candidate_name) ==
    [kind |-> "Candidate", candidate_name |-> candidate_name, candidate_votes |-> 0]

\* the increment of candidate_amount left out
initialize_candidate_poll_unchanged(poll) == poll

\* poll.candidate_amount += 1
initialize_candidate_poll(poll) ==
    [poll EXCEPT !.candidate_amount = @ + 1]

\* the poll taken as an unchecked account: the candidate is created whether
\* or not the poll is there
InitializeCandidate_unchecked_poll(acc, candidate_name, poll_id) ==
    LET pa == PollAddress(poll_id)
        ca == CandidateAddress(poll_id, candidate_name)
        loaded == LoadAccount(acc, pa, "Poll")
        created == InitAccount(acc, ca)
    IN  IF created # "Ok" THEN [result |-> created, accounts |-> acc]
        ELSE IF loaded # "Ok"
        THEN [result |-> "Ok",
              accounts |-> Put(acc, ca, initialize_candidate_record(candidate_name))]
        ELSE [result |-> "Ok",
              accounts |-> Put(Put(acc, ca, initialize_candidate_record(candidate_name)),
                               pa, initialize_candidate_poll(acc[pa]))]

InitializeCandidate(acc, candidate_name, poll_id) ==
    LET pa == PollAddress(poll_id)
        ca == CandidateAddress(poll_id, candidate_name)
        loaded == LoadAccount(acc, pa, "Poll")
        created == InitAccount(acc, ca)
    IN  IF loaded # "Ok" THEN [result |-> loaded, accounts |-> acc]
        ELSE IF created # "Ok" THEN [result |-> created, accounts |-> acc]
        ELSE [result |-> "Ok",
              accounts |-> Put(Put(acc, ca, initialize_candidate_record(candidate_name)),
                               pa, initialize_candidate_poll(acc[pa]))]

----------------------------------------------------------------------------
(* vote *)

\* the check of voted left out
vote_checks_none(voter_record) == "Ok"

\* if ctx.accounts.voter_record.voted { return Err(AlreadyVoted) }
vote_checks(voter_record) ==
    IF voter_record.voted THEN "AlreadyVoted" ELSE "Ok"

\* the checks of lines 83-93 as they would run were they not comments
vote_time_checks_enabled(current_time, poll) ==
    IF ~(current_time >= poll.poll_start) THEN "PollNotStarted"
    ELSE IF ~(current_time <= poll.poll_end) THEN "PollEnded"
    ELSE "Ok"

\* let current_time = Clock::get()..; require!(..PollNotStarted);
\* require!(..PollEnded) are commented out: nothing is read, nothing checked
vote_time_checks(current_time, poll) == "Ok"

\* the increment of candidate_votes left out
vote_candidate_unchanged(candidate) == candidate

\* candidate.candidate_votes += 1
vote_candidate(candidate) == [candidate EXCEPT !.candidate_votes = @ + 1]

\* the increment of total_votes left out
vote_poll_unchanged(poll) == poll

\* the vote counted as a candidate of the poll too
vote_poll_counts_candidate(poll) ==
    [poll EXCEPT !.total_votes = @ + 1, !.candidate_amount = @ + 1]

\* poll.total_votes += 1
vote_poll(poll) == [poll EXCEPT !.total_votes = @ + 1]

\* the poll's address not written to the record
vote_voter_record_without_poll(voter_record, poll_key) ==
    [voter_record EXCEPT !.voted = TRUE]

\* voter_record.voted = true; voter_record.poll = poll_key
vote_voter_record(voter_record, poll_key) ==
    [voter_record EXCEPT !.voted = TRUE, !.poll = poll_key]

\* the whole instruction, run when the cluster's clock says current_time:
\* [result, accounts]
VoteAt(acc, current_time, signer, candidate_name, poll_id) ==
    LET pa == PollAddress(poll_id)
        ca == CandidateAddress(poll_id, candidate_name)
        va == VoterRecordAddress(signer, poll_id)
        poll_loaded == LoadAccount(acc, pa, "Poll")
        candidate_loaded == LoadAccount(acc, ca, "Candidate")
        voter == InitIfNeeded(acc, va, "VoterRecord", FreshVoterRecord)
        checked == vote_checks(voter.account)
        timed == vote_time_checks(current_time, acc[pa])
    IN  IF poll_loaded # "Ok" THEN [result |-> poll_loaded, accounts |-> acc]
        ELSE IF candidate_loaded # "Ok" THEN [result |-> candidate_loaded, accounts |-> acc]
        ELSE IF voter.result # "Ok" THEN [result |-> voter.result, accounts |-> acc]
        ELSE IF checked # "Ok" THEN [result |-> checked, accounts |-> acc]
        ELSE IF timed # "Ok" THEN [result |-> timed, accounts |-> acc]
        ELSE [result |-> "Ok",
              accounts |-> Put(Put(Put(acc, ca, vote_candidate(acc[ca])),
                                   pa, vote_poll(acc[pa])),
                               va, vote_voter_record(voter.account, pa))]

\* the instruction where the clock is not followed: the handler never reads it
Vote(acc, signer, candidate_name, poll_id) ==
    VoteAt(acc, 0, signer, candidate_name, poll_id)

----------------------------------------------------------------------------
(* The state machine *)

NoOp == [op |-> "None", signer |-> <<>>, poll_id |-> 0, candidate_name |-> <<>>,
         description |-> "", poll_start |-> 0, poll_end |-> 0, now |-> 0,
         result |-> "None"]

NumAccounts == Cardinality(DOMAIN accounts)

Room == NumAccounts < MaxAccounts

Init ==
    /\ accounts = <<>>
    /\ last = NoOp
    /\ inflight = {}
    /\ finished = <<>>

\* the signer of initialize_poll and initialize_candidate only pays for the
\* account; the handlers do not read it
CreatePoll(poll_id, description, poll_start, poll_end) ==
    LET out == InitializePoll(accounts, poll_id, description, poll_start, poll_end)
    IN  /\ Room
        /\ accounts' = out.accounts
        /\ last' = [NoOp EXCEPT !.op = "CreatePoll",
                                !.poll_id = poll_id, !.description = description,
                                !.poll_start = poll_start, !.poll_end = poll_end,
                                !.result = out.result]
        /\ UNCHANGED <<inflight, finished>>

AddCandidate(poll_id, candidate_name) ==
    LET out == InitializeCandidate(accounts, candidate_name, poll_id)
    IN  /\ Room
        /\ accounts' = out.accounts
        /\ last' = [NoOp EXCEPT !.op = "AddCandidate",
                                !.poll_id = poll_id, !.candidate_name = candidate_name,
                                !.result = out.result]
        /\ UNCHANGED <<inflight, finished>>

CastVote(signer, poll_id, candidate_name) ==
    LET out == Vote(accounts, signer, candidate_name, poll_id)
    IN  /\ Room
        /\ accounts' = out.accounts
        /\ last' = [NoOp EXCEPT !.op = "Vote", !.signer = signer,
                                !.poll_id = poll_id, !.candidate_name = candidate_name,
                                !.result = out.result]
        /\ UNCHANGED <<inflight, finished>>

DoCreatePoll ==
    \E p \in PollIds, args \in PollArguments :
        CreatePoll(p, args[1], args[2], args[3])

DoAddCandidate ==
    \E p \in PollIds, n \in CandidateNames : AddCandidate(p, n)

DoCastVote ==
    \E s \in Signers, p \in PollIds, n \in CandidateNames : CastVote(s, p, n)

Next == DoCreatePoll \/ DoAddCandidate \/ DoCastVote

Spec == Init /\ [][Next]_vars

----------------------------------------------------------------------------
(* Concurrent votes.  Vote transactions are submitted in any number and    *)
(* order; the runtime locks the accounts a transaction writes, so          *)
(* transactions that touch the same voter record (or the same poll) run    *)
(* one after the other, each of them whole, in an order of its choosing.   *)

\* the ledger after initialize_poll(1, ..) and initialize_candidate for Apple,
\* Banana and TailName
PreparedLedger ==
    LET a1 == InitializePoll(<<>>, 1, "Best fruit", 1000, 2000).accounts
        a2 == InitializeCandidate(a1, Apple, 1).accounts
        a3 == InitializeCandidate(a2, Banana, 1).accounts
    IN  InitializeCandidate(a3, TailName, 1).accounts

PreparedNames == {Apple, Banana, TailName}

InitConc ==
    /\ accounts = PreparedLedger
    /\ last = NoOp
    /\ inflight = {}
    /\ finished = <<>>

Submitted == Cardinality(inflight) + Len(finished)

Submit(signer, poll_id, candidate_name) ==
    /\ Submitted < MaxInflight
    /\ inflight' = inflight \cup {[id |-> Submitted + 1, signer |-> signer,
                                   poll_id |-> poll_id,
                                   candidate_name |-> candidate_name]}
    /\ UNCHANGED <<accounts, last, finished>>

Execute(tx) ==
    LET out == Vote(accounts, tx.signer, tx.candidate_name, tx.poll_id)
    IN  /\ accounts' = out.accounts
        /\ last' = [NoOp EXCEPT !.op = "Vote", !.signer = tx.signer,
                                !.poll_id = tx.poll_id,
                                !.candidate_name = tx.candidate_name,
                                !.result = out.result]
        /\ inflight' = inflight \ {tx}
        /\ finished' = Append(finished, [id |-> tx.id, signer |-> tx.signer,
                                         poll_id |-> tx.poll_id,
                                         candidate_name |-> tx.candidate_name,
                                         result |-> out.result])

DoSubmit == \E s \in Signers, n \in PreparedNames : Submit(s, 1, n)

DoExecute == \E tx \in inflight : Execute(tx)

NextConc == DoSubmit \/ DoExecute

SpecConc == InitConc /\ [][NextConc]_vars

----------------------------------------------------------------------------
(* A log of calls.  The calls of the end-to-end scenario of the            *)
(* specification are made in any order and any number of times; finished   *)
(* keeps every call with its result.                                       *)

\* the log holds at most this many calls
MaxLog == 6

CreatePollCall(poll_id, description, poll_start, poll_end) ==
    [NoOp EXCEPT !.op = "CreatePoll", !.poll_id = poll_id, !.description = description,
                 !.poll_start = poll_start, !.poll_end = poll_end]

AddCandidateCall(poll_id, candidate_name) ==
    [NoOp EXCEPT !.op = "AddCandidate", !.poll_id = poll_id,
                 !.candidate_name = candidate_name]

VoteCall(signer, poll_id, candidate_name) ==
    [NoOp EXCEPT !.op = "Vote", !.signer = signer, !.poll_id = poll_id,
                 !.candidate_name = candidate_name]

\* the instruction a call runs, on the ledger acc: [result, accounts]
Outcome(acc, call) ==
    IF call.op = "CreatePoll"
    THEN InitializePoll(acc, call.poll_id, call.description, call.poll_start, call.poll_end)
    ELSE IF call.op = "AddCandidate"
    THEN InitializeCandidate(acc, call.candidate_name, call.poll_id)
    ELSE Vote(acc, call.signer, call.candidate_name, call.poll_id)

Scenario ==
    << CreatePollCall(1, "Best fruit", 1000, 2000),
       AddCandidateCall(1, Apple),
       AddCandidateCall(1, Banana),
       VoteCall(Alice, 1, Apple),
       VoteCall(Alice, 1, Apple),
       VoteCall(Bob, 1, Banana) >>

ScenarioCalls == {Scenario[i] : i \in 1..Len(Scenario)}

Call(call) ==
    LET out == Outcome(accounts, call)
    IN  /\ Len(finished) < MaxLog
        /\ accounts' = out.accounts
        /\ last' = [call EXCEPT !.result = out.result]
        /\ finished' = Append(finished, [call |-> call, result |-> out.result])
        /\ UNCHANGED inflight

LogCreatePoll == \E c \in ScenarioCalls : c.op = "CreatePoll" /\ Call(c)

LogAddCandidate == \E c \in ScenarioCalls : c.op = "AddCandidate" /\ Call(c)

LogCastVote == \E c \in ScenarioCalls : c.op = "Vote" /\ Call(c)

NextLog == LogCreatePoll \/ LogAddCandidate \/ LogCastVote

SpecLog == Init /\ [][NextLog]_vars

----------------------------------------------------------------------------
(* The clock.  Every instruction runs at the time the cluster's clock      *)
(* says, which never goes back; last.now keeps the time of the last call.  *)
(* One poll with its window 1000..2000 and times before, in and after it.  *)

Times == {500, 1500, 2500}

ClockPollArguments ==
    {<<"Best fruit", 1000, 2000>>, <<"Best fruit", 2000, 1000>>, <<"Best fruit", 0, 2000>>}

ClockNames == {Apple, TailName}

ClockSigners == {Alice, Carol}

Tick(now) == now \in Times /\ now >= last.now

ClockCreatePoll(now, poll_id, description, poll_start, poll_end) ==
    LET out == InitializePollAt(accounts, now, poll_id, description, poll_start, poll_end)
    IN  /\ Tick(now)
        /\ Room
        /\ accounts' = out.accounts
        /\ last' = [CreatePollCall(poll_id, description, poll_start, poll_end)
                       EXCEPT !.now = now, !.result = out.result]
        /\ UNCHANGED <<inflight, finished>>

ClockAddCandidate(now, poll_id, candidate_name) ==
    LET out == InitializeCandidate(accounts, candidate_name, poll_id)
    IN  /\ Tick(now)
        /\ Room
        /\ accounts' = out.accounts
        /\ last' = [AddCandidateCall(poll_id, candidate_name)
                       EXCEPT !.now = now, !.result = out.result]
        /\ UNCHANGED <<inflight, finished>>

ClockCastVote(now, signer, poll_id, candidate_name) ==
    LET out == VoteAt(accounts, now, signer, candidate_name, poll_id)
    IN  /\ Tick(now)
        /\ Room
        /\ accounts' = out.accounts
        /\ last' = [VoteCall(signer, poll_id, candidate_name)
                       EXCEPT !.now = now, !.result = out.result]
        /\ UNCHANGED <<inflight, finished>>

DoClockCreatePoll ==
    \E now \in Times, args \in ClockPollArguments :
        ClockCreatePoll(now, 1, args[1], args[2], args[3])

DoClockAddCandidate ==
    \E now \in Times, n \in ClockNames : ClockAddCandidate(now, 1, n)

DoClockCastVote ==
    \E now \in Times, s \in ClockSigners, n \in ClockNames : ClockCastVote(now, s, 1, n)

NextClock == DoClockCreatePoll \/ DoClockAddCandidate \/ DoClockCastVote

SpecClock == Init /\ [][NextClock]_vars

----------------------------------------------------------------------------
(* Reading the ledger *)

PollExists(acc, poll_id) == AccountAt(acc, PollAddress(poll_id)).kind = "Poll"

PollOf(acc, poll_id) == acc[PollAddress(poll_id)]

\* the Candidate accounts keyed by (poll_id, name) for some name: the accounts
\* of type Candidate whose address starts with the bytes of poll_id
CandidatesOf(acc, poll_id) ==
    {a \in DOMAIN acc : /\ acc[a].kind = "Candidate"
                        /\ Len(a) >= U64Bytes
                        /\ SubSeq(a, 1, U64Bytes) = to_le_bytes(poll_id)}

CandidateExists(acc, poll_id, candidate_name) ==
    /\ Len(candidate_name) <= CandidateNameMaxLen
    /\ AccountAt(acc, CandidateAddress(poll_id, candidate_name)).kind = "Candidate"

\* the signer's VoterRecord for the poll is there and says voted
HasVoted(acc, signer, poll_id) ==
    LET r == AccountAt(acc, VoterRecordAddress(signer, poll_id))
    IN  r.kind = "VoterRecord" /\ r.voted

RECURSIVE SumVotes(_, _)
SumVotes(acc, as) ==
    IF as = {} THEN 0
    ELSE LET a == CHOOSE x \in as : TRUE
         IN  acc[a].candidate_votes + SumVotes(acc, as \ {a})

ValidTimestamps(poll_start, poll_end) ==
    /\ 0 < poll_start /\ poll_start < max_reasonable_timestamp
    /\ 0 < poll_end /\ poll_end < max_reasonable_timestamp

----------------------------------------------------------------------------
(* C1: in every reachable state, the total_votes of every poll equals the  *)
(* sum of candidate_votes over the Candidate accounts keyed by that poll.  *)

C1_TotalVotesIsSum ==
    \A p \in PollIds :
        PollExists(accounts, p) =>
            PollOf(accounts, p).total_votes = SumVotes(accounts, CandidatesOf(accounts, p))

\* a poll with two candidates, both voted for, after a vote
C1_Witness ==
    /\ last.op = "Vote" /\ last.result = "Ok"
    /\ \E p \in PollIds :
          /\ PollExists(accounts, p)
          /\ PollOf(accounts, p).total_votes = 2
          /\ \E a, b \in CandidatesOf(accounts, p) :
                a # b /\ accounts[a].candidate_votes = 1 /\ accounts[b].candidate_votes = 1

----------------------------------------------------------------------------
(* C2 as claimed: when the signer has already voted on the poll, every     *)
(* further Vote of the signer on the poll, whatever the candidate name,    *)
(* fails with AlreadyVoted and leaves the ledger unchanged.                *)

C2_AnyNameAlreadyVoted ==
    [][(last'.op = "Vote" /\ HasVoted(accounts, last'.signer, last'.poll_id))
          => (last'.result = "AlreadyVoted" /\ accounts' = accounts)]_vars

(* C2 amended: when the signer has already voted on the poll, every        *)
(* further Vote of the signer on the poll fails and leaves the ledger      *)
(* unchanged; it fails with AlreadyVoted when the name is that of a        *)
(* candidate of the poll, and while the candidate account is loaded, before *)
(* the handler looks at the voter record, when it is not.                  *)

C2_RepeatedVoteFails ==
    [][(last'.op = "Vote" /\ HasVoted(accounts, last'.signer, last'.poll_id))
          => /\ accounts' = accounts
             /\ IF CandidateExists(accounts, last'.poll_id, last'.candidate_name)
                THEN last'.result = "AlreadyVoted"
                ELSE last'.result \in {"NotFound", "WrongAccount", "InvalidSeeds"}]_vars

\* a second vote of a signer, for a candidate other than the one of the first
C2_Witness ==
    /\ last.op = "Vote" /\ last.result = "AlreadyVoted"
    /\ HasVoted(accounts, last.signer, last.poll_id)
    /\ accounts[CandidateAddress(last.poll_id, last.candidate_name)].candidate_votes = 0

----------------------------------------------------------------------------
(* C3 as claimed: a Vote of a signer who has not voted on the poll, for an *)
(* existing candidate of an existing poll, succeeds and in one step adds 1 *)
(* to the candidate's votes and to the poll's total, and leaves the        *)
(* signer's VoterRecord with voted = true and poll = the poll's address.   *)

C3_FirstVoteSucceeds ==
    [][(/\ last'.op = "Vote"
        /\ PollExists(accounts, last'.poll_id)
        /\ CandidateExists(accounts, last'.poll_id, last'.candidate_name)
        /\ ~HasVoted(accounts, last'.signer, last'.poll_id))
          => LET pa == PollAddress(last'.poll_id)
                 ca == CandidateAddress(last'.poll_id, last'.candidate_name)
                 va == VoterRecordAddress(last'.signer, last'.poll_id)
             IN  /\ last'.result = "Ok"
                 /\ AccountAt(accounts', ca).kind = "Candidate"
                 /\ accounts'[ca].candidate_votes = accounts[ca].candidate_votes + 1
                 /\ accounts'[pa].total_votes = accounts[pa].total_votes + 1
                 /\ AccountAt(accounts', va).kind = "VoterRecord"
                 /\ accounts'[va].voted
                 /\ accounts'[va].poll = pa]_vars

----------------------------------------------------------------------------
(* C4 as claimed: of the Vote transactions of one signer on one poll, for  *)
(* existing candidates, that have run, exactly one succeeded and every     *)
(* other one failed with AlreadyVoted; the poll's total and the sum of its *)
(* candidates' votes rose by exactly 1 for every signer with a transaction *)
(* that has run.                                                           *)

\* the transactions of the signer on the poll that have run
FinishedOf(signer, poll_id) ==
    {i \in 1..Len(finished) :
        finished[i].signer = signer /\ finished[i].poll_id = poll_id}

VotersOf(poll_id) == {s \in Signers : FinishedOf(s, poll_id) # {}}

C4_ExactlyOneAttempt ==
    \A p \in PollIds :
        /\ \A s \in VotersOf(p) :
              \E i \in FinishedOf(s, p) :
                  /\ finished[i].result = "Ok"
                  /\ \A j \in FinishedOf(s, p) \ {i} : finished[j].result = "AlreadyVoted"
        /\ PollExists(accounts, p) =>
              /\ PollOf(accounts, p).total_votes = Cardinality(VotersOf(p))
              /\ SumVotes(accounts, CandidatesOf(accounts, p)) = Cardinality(VotersOf(p))

\* the same, for the signers whose voter record address is no candidate's
C4_ExactlyOneAttemptElsewhere ==
    \A p \in PollIds :
        \A s \in VotersOf(p) :
            VoterRecordAddress(s, p) \notin CandidatesOf(accounts, p)
               => \E i \in FinishedOf(s, p) :
                     /\ finished[i].result = "Ok"
                     /\ \A j \in FinishedOf(s, p) \ {i} :
                           finished[j].result = "AlreadyVoted"

----------------------------------------------------------------------------
(* C5: a VoterRecord that says voted says voted in every later state: no   *)
(* step resets it, removes it or replaces it by another account.           *)

C5_VotedIsPermanent ==
    [][\A a \in DOMAIN accounts :
          (accounts[a].kind = "VoterRecord" /\ accounts[a].voted)
             => /\ a \in DOMAIN accounts'
                /\ accounts'[a].kind = "VoterRecord"
                /\ accounts'[a].voted]_vars

\* the signer has voted on a poll, and the last operation was a successful
\* creation of a candidate of that poll
C5_Witness ==
    /\ last.op = "AddCandidate" /\ last.result = "Ok"
    /\ \E s \in Signers : HasVoted(accounts, s, last.poll_id)

----------------------------------------------------------------------------
(* C6: CreatePoll with 0 < poll_start < poll_end < 1893456000 (and a       *)
(* description of at most 200 bytes) on a poll_id without a Poll succeeds  *)
(* and creates the Poll with the arguments and both counters 0; CreatePoll *)
(* on a poll_id with a Poll fails with AlreadyExists, whatever the         *)
(* arguments, and leaves the ledger unchanged; a Poll once created stays.  *)

C6_CreatePollOnce ==
    /\ [][last'.op = "CreatePoll"
            => IF PollExists(accounts, last'.poll_id)
               THEN last'.result = "AlreadyExists" /\ accounts' = accounts
               ELSE (/\ ValidTimestamps(last'.poll_start, last'.poll_end)
                     /\ last'.poll_start < last'.poll_end
                     /\ Len(last'.description) <= DescriptionMaxLen)
                       => /\ last'.result = "Ok"
                          /\ DOMAIN accounts' = DOMAIN accounts \cup {PollAddress(last'.poll_id)}
                          /\ \A a \in DOMAIN accounts : accounts'[a] = accounts[a]
                          /\ PollOf(accounts', last'.poll_id) =
                                [kind |-> "Poll", poll_id |-> last'.poll_id,
                                 description |-> last'.description,
                                 poll_start |-> last'.poll_start,
                                 poll_end |-> last'.poll_end,
                                 candidate_amount |-> 0, total_votes |-> 0]]_vars
    /\ [][\A p \in PollIds : PollExists(accounts, p) => PollExists(accounts', p)]_vars

\* a second CreatePoll, with valid arguments, on a poll that has a candidate
\* and a vote
C6_Witness ==
    /\ last.op = "CreatePoll" /\ last.result = "AlreadyExists"
    /\ ValidTimestamps(last.poll_start, last.poll_end)
    /\ last.poll_start < last.poll_end
    /\ Len(last.description) <= DescriptionMaxLen
    /\ PollOf(accounts, last.poll_id).candidate_amount > 0
    /\ PollOf(accounts, last.poll_id).total_votes > 0

----------------------------------------------------------------------------
(* C7 as claimed: CreatePoll with poll_start >= poll_end fails with        *)
(* InvalidPollDuration, whether or not the timestamps are in range, and    *)
(* creates no poll.                                                        *)

C7_AlwaysInvalidPollDuration ==
    [][(last'.op = "CreatePoll" /\ last'.poll_start >= last'.poll_end)
          => (last'.result = "InvalidPollDuration" /\ accounts' = accounts)]_vars

(* C7 amended: CreatePoll with poll_start >= poll_end fails and leaves the *)
(* ledger unchanged; on a poll_id without a Poll it fails with             *)
(* InvalidPollDuration when both timestamps are inside (0, 1893456000) and *)
(* with InvalidTimestamp when one is not; on a poll_id with a Poll it      *)
(* fails with AlreadyExists.                                               *)

C7_InvalidPollDuration ==
    [][(last'.op = "CreatePoll" /\ last'.poll_start >= last'.poll_end)
          => /\ accounts' = accounts
             /\ last'.result =
                  IF PollExists(accounts, last'.poll_id) THEN "AlreadyExists"
                  ELSE IF ValidTimestamps(last'.poll_start, last'.poll_end)
                       THEN "InvalidPollDuration"
                       ELSE "InvalidTimestamp"]_vars

\* CreatePoll with equal timestamps, both in range, failed with
\* InvalidPollDuration
C7_Witness ==
    /\ last.op = "CreatePoll" /\ last.result = "InvalidPollDuration"
    /\ last.poll_start = last.poll_end
    /\ ~PollExists(accounts, last.poll_id)

----------------------------------------------------------------------------
(* C8 as claimed: every Poll has 0 < poll_start < poll_end < 1893456000,   *)
(* and a CreatePoll with a timestamp outside (0, 1893456000) fails with    *)
(* InvalidTimestamp and creates no poll.                                   *)

PollTimestampsValid(acc) ==
    \A p \in PollIds :
        PollExists(acc, p) =>
            /\ 0 < PollOf(acc, p).poll_start
            /\ PollOf(acc, p).poll_start < PollOf(acc, p).poll_end
            /\ PollOf(acc, p).poll_end < max_reasonable_timestamp

C8_AlwaysInvalidTimestamp ==
    /\ []PollTimestampsValid(accounts)
    /\ [][(last'.op = "CreatePoll" /\ ~ValidTimestamps(last'.poll_start, last'.poll_end))
            => (last'.result = "InvalidTimestamp" /\ accounts' = accounts)]_vars

(* C8 amended: every Poll has 0 < poll_start < poll_end < 1893456000, and  *)
(* a CreatePoll with a timestamp outside (0, 1893456000) fails and leaves  *)
(* the ledger unchanged: with InvalidTimestamp on a poll_id without a      *)
(* Poll, with AlreadyExists on a poll_id with a Poll.                      *)

C8_InvalidTimestamp ==
    /\ []PollTimestampsValid(accounts)
    /\ [][(last'.op = "CreatePoll" /\ ~ValidTimestamps(last'.poll_start, last'.poll_end))
            => /\ accounts' = accounts
               /\ last'.result = IF PollExists(accounts, last'.poll_id)
                                 THEN "AlreadyExists"
                                 ELSE "InvalidTimestamp"]_vars

\* CreatePoll with poll_end equal to the bound failed with InvalidTimestamp
\* while another poll is in the ledger
C8_Witness ==
    /\ last.op = "CreatePoll" /\ last.result = "InvalidTimestamp"
    /\ last.poll_start = 1000 /\ last.poll_end = max_reasonable_timestamp
    /\ \E p \in PollIds : PollExists(accounts, p)

----------------------------------------------------------------------------
(* C9: a successful AddCandidate(poll_id, name) creates the Candidate at   *)
(* (poll_id, name) with the name and 0 votes, adds exactly 1 to the poll's *)
(* candidate_amount and changes nothing else; AddCandidate for a pair that *)
(* has a Candidate fails with AlreadyExists and leaves the ledger, so the  *)
(* candidate's votes and candidate_amount, unchanged.                      *)

C9_AddCandidate ==
    [][last'.op = "AddCandidate"
          => LET pa == PollAddress(last'.poll_id)
                 ca == CandidateAddress(last'.poll_id, last'.candidate_name)
             IN  /\ last'.result = "Ok"
                    => /\ ca \notin DOMAIN accounts
                       /\ DOMAIN accounts' = DOMAIN accounts \cup {ca}
                       /\ accounts'[ca] = [kind |-> "Candidate",
                                           candidate_name |-> last'.candidate_name,
                                           candidate_votes |-> 0]
                       /\ accounts'[pa] =
                            [accounts[pa] EXCEPT !.candidate_amount = @ + 1]
                       /\ \A a \in DOMAIN accounts \ {pa} : accounts'[a] = accounts[a]
                 /\ CandidateExists(accounts, last'.poll_id, last'.candidate_name)
                    => (last'.result = "AlreadyExists" /\ accounts' = accounts)]_vars

\* a repeated AddCandidate for a candidate that has a vote
C9_Witness ==
    /\ last.op = "AddCandidate" /\ last.result = "AlreadyExists"
    /\ CandidateExists(accounts, last.poll_id, last.candidate_name)
    /\ accounts[CandidateAddress(last.poll_id, last.candidate_name)].candidate_votes = 1
    /\ PollOf(accounts, last.poll_id).candidate_amount = 2

----------------------------------------------------------------------------
(* C10: AddCandidate and Vote on a poll_id without a Poll fail with        *)
(* NotFound, whatever the name, and leave the ledger unchanged.            *)

C10_NoPoll ==
    [][(last'.op \in {"AddCandidate", "Vote"} /\ ~PollExists(accounts, last'.poll_id))
          => (last'.result = "NotFound" /\ accounts' = accounts)]_vars

\* AddCandidate on a poll_id without a Poll, for a name the other poll has a
\* candidate of
C10_Witness ==
    /\ last.op = "AddCandidate" /\ last.result = "NotFound"
    /\ ~PollExists(accounts, last.poll_id)
    /\ \E p \in PollIds : CandidateExists(accounts, p, last.candidate_name)

\* the same for Vote
C10_WitnessVote ==
    /\ last.op = "Vote" /\ last.result = "NotFound"
    /\ ~PollExists(accounts, last.poll_id)
    /\ \E p \in PollIds : CandidateExists(accounts, p, last.candidate_name)

----------------------------------------------------------------------------
(* C11 as claimed: address derivation is collision-free: two different     *)
(* logical records (a Poll by poll_id, a Candidate by (poll_id, name) with *)
(* a name of 0 to 32 bytes, a VoterRecord by (signer, poll_id)) never      *)
(* derive the same address, so no address of the ledger is the address of  *)
(* two logical records.                                                    *)

\* the logical records of the model's inputs, by kind and key
LogicalRecords ==
    {[kind |-> "Poll", poll_id |-> p, key |-> <<>>] : p \in PollIds}
    \cup {[kind |-> "Candidate", poll_id |-> p, key |-> n] :
             p \in PollIds, n \in {x \in CandidateNames : Len(x) <= CandidateNameMaxLen}}
    \cup {[kind |-> "VoterRecord", poll_id |-> p, key |-> k] :
             p \in PollIds, k \in Signers}

AddressOfRecord(r) ==
    IF r.kind = "Poll" THEN PollAddress(r.poll_id)
    ELSE IF r.kind = "Candidate" THEN CandidateAddress(r.poll_id, r.key)
    ELSE VoterRecordAddress(r.key, r.poll_id)

RecordsAt(a) == {r \in LogicalRecords : AddressOfRecord(r) = a}

C11_CollisionFree ==
    \A a \in DOMAIN accounts : Cardinality(RecordsAt(a)) = 1

\* the collisions among the records of the model's inputs
C11_Collisions ==
    {<<r1, r2>> \in LogicalRecords \X LogicalRecords :
        r1 # r2 /\ r1.kind <= r2.kind /\ AddressOfRecord(r1) = AddressOfRecord(r2)}

\* a Candidate account lies at the address of a signer's VoterRecord
C11_SharedAddressReached ==
    \E a \in DOMAIN accounts :
        /\ accounts[a].kind = "Candidate"
        /\ \E r \in RecordsAt(a) : r.kind = "VoterRecord"

----------------------------------------------------------------------------
(* C12: from the empty ledger, CreatePoll(1, "Best fruit", 1000, 2000),    *)
(* AddCandidate(1, "Apple"), AddCandidate(1, "Banana"), Vote(1, "Apple")   *)
(* as Alice, the same again, Vote(1, "Banana") as Bob yield in order: ok;  *)
(* ok with candidate_amount 1; ok with candidate_amount 2; ok with Apple   *)
(* at 1 vote and total_votes 1; AlreadyVoted with Apple still at 1; ok     *)
(* with Banana at 1 vote and total_votes 2.                                *)

ScenarioResults == <<"Ok", "Ok", "Ok", "Ok", "AlreadyVoted", "Ok">>

\* the log is the first calls of the scenario
ScenarioPrefix ==
    /\ Len(finished) <= Len(Scenario)
    /\ \A i \in 1..Len(finished) : finished[i].call = Scenario[i]

VotesOf(acc, poll_id, candidate_name) ==
    acc[CandidateAddress(poll_id, candidate_name)].candidate_votes

C12_Scenario ==
    ScenarioPrefix =>
        LET k == Len(finished)
        IN  /\ \A i \in 1..k : finished[i].result = ScenarioResults[i]
            /\ k = 1 => /\ PollOf(accounts, 1).candidate_amount = 0
                        /\ PollOf(accounts, 1).total_votes = 0
            /\ k = 2 => PollOf(accounts, 1).candidate_amount = 1
            /\ k >= 3 => PollOf(accounts, 1).candidate_amount = 2
            /\ k \in {4, 5} => /\ VotesOf(accounts, 1, Apple) = 1
                               /\ VotesOf(accounts, 1, Banana) = 0
                               /\ PollOf(accounts, 1).total_votes = 1
            /\ k = 6 => /\ VotesOf(accounts, 1, Apple) = 1
                        /\ VotesOf(accounts, 1, Banana) = 1
                        /\ PollOf(accounts, 1).total_votes = 2

\* the whole scenario has run
C12_Witness == ScenarioPrefix /\ Len(finished) = Len(Scenario)

----------------------------------------------------------------------------
(* C13 as claimed: a Vote that fails for a reason other than AlreadyVoted, *)
(* of a signer who has not voted on the poll, leaves every account as it   *)
(* was, leaves no VoterRecord at the signer's address for the poll, and    *)
(* the signer's vote for any existing candidate of the poll succeeds       *)
(* afterwards.                                                             *)

\* the step is a Vote that failed, and not because the signer had voted
FailedVoteStep ==
    /\ last'.op = "Vote"
    /\ last'.result \notin {"Ok", "AlreadyVoted"}
    /\ ~HasVoted(accounts, last'.signer, last'.poll_id)

C13_FailedVoteLeavesNoTrace ==
    [][FailedVoteStep
          => /\ accounts' = accounts
             /\ AccountAt(accounts', VoterRecordAddress(last'.signer, last'.poll_id)).kind
                    # "VoterRecord"
             /\ \A n \in CandidateNames :
                   (/\ PollExists(accounts', last'.poll_id)
                    /\ CandidateExists(accounts', last'.poll_id, n))
                      => Vote(accounts', last'.signer, n, last'.poll_id).result = "Ok"]_vars

\* the part of C13 that does not depend on what the voter's address holds:
\* the failed Vote changes no account and creates no VoterRecord
C13_FailedVoteAtomic ==
    [][FailedVoteStep
          => /\ accounts' = accounts
             /\ AccountAt(accounts', VoterRecordAddress(last'.signer, last'.poll_id)).kind
                    # "VoterRecord"]_vars

----------------------------------------------------------------------------
(* C14: no call of CreatePoll, AddCandidate or Vote returns PollNotStarted,*)
(* PollEnded or PollEndedInPast, and what CreatePoll and Vote return and   *)
(* write is the same at every time of the clock.                           *)

TimeErrors == {"PollNotStarted", "PollEnded", "PollEndedInPast"}

C14_TimeChecksDisabled ==
    [][/\ last'.result \notin TimeErrors
       /\ last'.op = "Vote" =>
             \A t \in Times :
                 VoteAt(accounts, t, last'.signer, last'.candidate_name, last'.poll_id)
                   = [result |-> last'.result, accounts |-> accounts']
       /\ last'.op = "CreatePoll" =>
             \A t \in Times :
                 InitializePollAt(accounts, t, last'.poll_id, last'.description,
                                  last'.poll_start, last'.poll_end)
                   = [result |-> last'.result, accounts |-> accounts']]_vars

\* a vote counted after the poll's end
C14_Witness ==
    /\ last.op = "Vote" /\ last.result = "Ok"
    /\ last.now > PollOf(accounts, last.poll_id).poll_end

\* a vote counted before the poll's start
C14_WitnessBeforeStart ==
    /\ last.op = "Vote" /\ last.result = "Ok"
    /\ last.now < PollOf(accounts, last.poll_id).poll_start

\* a poll created when its end is already past
C14_WitnessEndedInPast ==
    /\ last.op = "CreatePoll" /\ last.result = "Ok"
    /\ last.poll_end <= last.now

----------------------------------------------------------------------------
(* C15: a call that fails with InvalidTimestamp, InvalidPollDuration or    *)
(* AlreadyVoted does not succeed in any state reached afterwards.  Checked *)
(* step by step: a call whose result in a state is one of these three, or  *)
(* AlreadyExists (what a CreatePoll with bad arguments returns once the    *)
(* poll is there), has such a result after every step as well, so that it  *)
(* never returns Ok later, whatever is called and however much time passes *)
(* in between.                                                             *)

ValidationErrors == {"InvalidTimestamp", "InvalidPollDuration", "AlreadyVoted"}

TerminalResults == ValidationErrors \cup {"AlreadyExists"}

\* the calls that can fail validation: every CreatePoll and Vote of SpecClock
ValidatedCalls ==
    {CreatePollCall(1, args[1], args[2], args[3]) : args \in ClockPollArguments}
    \cup {VoteCall(s, 1, n) : s \in ClockSigners, n \in ClockNames}

\* the result of the call on the ledger acc is terminal
Terminal(acc, call) == Outcome(acc, call).result \in TerminalResults

C15_ValidationFailuresTerminal ==
    [][accounts' # accounts =>
          \A call \in ValidatedCalls :
              Terminal(accounts, call) => Terminal(accounts', call)]_vars

\* a repeated vote was refused, later than the vote it repeats
C15_Witness ==
    /\ last.op = "Vote" /\ last.result = "AlreadyVoted"
    /\ last.now > 500

\* a CreatePoll refused for its timestamps
C15_WitnessInvalidTimestamp ==
    last.op = "CreatePoll" /\ last.result = "InvalidTimestamp"

\* a CreatePoll refused for its duration
C15_WitnessInvalidPollDuration ==
    last.op = "CreatePoll" /\ last.result = "InvalidPollDuration"

----------------------------------------------------------------------------
(* C16: every step keeps every account and its type and decreases no       *)
(* counter; candidate_amount changes only in a successful AddCandidate for *)
(* that poll, total_votes and candidate_votes only in a successful Vote    *)
(* for that poll and candidate; a poll's id, description and timestamps, a *)
(* candidate's name and a voter record never change once written, but for  *)
(* the voter record a successful Vote of its signer on its poll writes; a  *)
(* successful Vote changes no account but the poll, the candidate and the  *)
(* voter record it names.                                                  *)

SuccessfulStep(op) == last'.op = op /\ last'.result = "Ok"

PollFrame(a) ==
    LET old == accounts[a]
        new == accounts'[a]
    IN  /\ new.poll_id = old.poll_id
        /\ new.description = old.description
        /\ new.poll_start = old.poll_start
        /\ new.poll_end = old.poll_end
        /\ new.candidate_amount >= old.candidate_amount
        /\ new.total_votes >= old.total_votes
        /\ new.candidate_amount # old.candidate_amount
              => SuccessfulStep("AddCandidate") /\ a = PollAddress(last'.poll_id)
        /\ new.total_votes # old.total_votes
              => SuccessfulStep("Vote") /\ a = PollAddress(last'.poll_id)

CandidateFrame(a) ==
    LET old == accounts[a]
        new == accounts'[a]
    IN  /\ new.candidate_name = old.candidate_name
        /\ new.candidate_votes >= old.candidate_votes
        /\ new.candidate_votes # old.candidate_votes
              => /\ SuccessfulStep("Vote")
                 /\ a = CandidateAddress(last'.poll_id, last'.candidate_name)

VoterRecordFrame(a) ==
    accounts'[a] # accounts[a]
        => SuccessfulStep("Vote") /\ a = VoterRecordAddress(last'.signer, last'.poll_id)

VoteFrame ==
    LET named == {PollAddress(last'.poll_id),
                  CandidateAddress(last'.poll_id, last'.candidate_name),
                  VoterRecordAddress(last'.signer, last'.poll_id)}
    IN  /\ DOMAIN accounts' \subseteq DOMAIN accounts \cup named
        /\ \A a \in DOMAIN accounts \ named : accounts'[a] = accounts[a]

C16_Frame ==
    [][/\ \A a \in DOMAIN accounts :
             /\ a \in DOMAIN accounts'
             /\ accounts'[a].kind = accounts[a].kind
             /\ accounts[a].kind = "Poll" => PollFrame(a)
             /\ accounts[a].kind = "Candidate" => CandidateFrame(a)
             /\ accounts[a].kind = "VoterRecord" => VoterRecordFrame(a)
       /\ SuccessfulStep("Vote") => VoteFrame]_vars

\* a vote counted on a ledger with another poll
C16_WitnessOtherPoll ==
    /\ last.op = "Vote" /\ last.result = "Ok"
    /\ \E a \in DOMAIN accounts :
          accounts[a].kind = "Poll" /\ a # PollAddress(last.poll_id)

\* a vote counted on a ledger with another candidate and another voter record
C16_Witness ==
    /\ last.op = "Vote" /\ last.result = "Ok"
    /\ \E a \in DOMAIN accounts :
          /\ accounts[a].kind = "Candidate"
          /\ a # CandidateAddress(last.poll_id, last.candidate_name)
    /\ \E a \in DOMAIN accounts :
          /\ accounts[a].kind = "VoterRecord"
          /\ a # VoterRecordAddress(last.signer, last.poll_id)

----------------------------------------------------------------------------
(* C17 as claimed: a Vote succeeds if and only if the poll exists, the     *)
(* candidate exists in that poll and the signer has not voted on the poll. *)

VoteEnabled(acc, signer, poll_id, candidate_name) ==
    /\ PollExists(acc, poll_id)
    /\ CandidateExists(acc, poll_id, candidate_name)
    /\ ~HasVoted(acc, signer, poll_id)

C17_VoteSucceedsIff ==
    [][last'.op = "Vote"
          => (last'.result = "Ok"
                <=> VoteEnabled(accounts, last'.signer, last'.poll_id,
                                last'.candidate_name))]_vars

\* the direction of C17 that holds whatever the voter's address holds: a
\* Vote that succeeds found the poll and the candidate and a signer who had
\* not voted, and it credits the candidate keyed by the poll_id it names
C17_VoteSucceedsOnlyIf ==
    [][(last'.op = "Vote" /\ last'.result = "Ok")
          => /\ VoteEnabled(accounts, last'.signer, last'.poll_id, last'.candidate_name)
             /\ \A a \in DOMAIN accounts :
                   (accounts[a].kind = "Candidate" /\ accounts'[a] # accounts[a])
                      => a \in CandidatesOf(accounts, last'.poll_id)]_vars

----------------------------------------------------------------------------
(* C18: in every reachable state the total_votes of every poll equals the  *)
(* number of VoterRecord accounts keyed by (signer, poll_id) with voted =  *)
(* true, which is the number of signers who have voted on the poll.        *)

\* the VoterRecord accounts keyed by (signer, poll_id) for some signer: the
\* accounts of type VoterRecord whose address is 32 bytes followed by the
\* bytes of poll_id
VoterRecordsOf(acc, poll_id) ==
    {a \in DOMAIN acc : /\ acc[a].kind = "VoterRecord"
                        /\ Len(a) = PubkeyBytes + U64Bytes
                        /\ SubSeq(a, PubkeyBytes + 1, PubkeyBytes + U64Bytes)
                              = to_le_bytes(poll_id)}

C18_TotalVotesIsVoters ==
    \A p \in PollIds :
        PollExists(accounts, p) =>
            /\ PollOf(accounts, p).total_votes
                  = Cardinality({a \in VoterRecordsOf(accounts, p) : accounts[a].voted})
            /\ PollOf(accounts, p).total_votes
                  = Cardinality({s \in Signers : HasVoted(accounts, s, p)})

\* a repeated vote was refused on a poll two signers have voted on
C18_Witness ==
    /\ last.op = "Vote" /\ last.result = "AlreadyVoted"
    /\ PollOf(accounts, last.poll_id).total_votes = 2

----------------------------------------------------------------------------
(* C19: in every reachable state the candidate_amount of every poll equals *)
(* the number of Candidate accounts keyed by (poll_id, name).              *)

C19_CandidateAmountIsCount ==
    \A p \in PollIds :
        PollExists(accounts, p) =>
            PollOf(accounts, p).candidate_amount = Cardinality(CandidatesOf(accounts, p))

\* a candidate was refused, its name being taken, on a poll with two
\* candidates, while the other poll has none
C19_Witness ==
    /\ last.op = "AddCandidate" /\ last.result = "AlreadyExists"
    /\ PollOf(accounts, last.poll_id).candidate_amount = 2
    /\ \E p \in PollIds : PollExists(accounts, p) /\ PollOf(accounts, p).candidate_amount = 0

----------------------------------------------------------------------------
(* C20: in every reachable state every VoterRecord account is keyed by a   *)
(* signer and the poll_id of an existing poll, has voted = true, and its   *)
(* poll field is the address of that poll.                                 *)

C20_VoterRecordsComplete ==
    \A a \in DOMAIN accounts :
        accounts[a].kind = "VoterRecord" =>
            \E p \in PollIds :
                /\ a \in VoterRecordsOf(accounts, p)
                /\ accounts[a].voted
                /\ accounts[a].poll = PollAddress(p)
                /\ PollExists(accounts, p)
                /\ PollOf(accounts, p).poll_id = p

\* a vote failed and left no account at the signer's address, on a ledger
\* that holds the voter record of a vote on poll 2
C20_Witness ==
    /\ last.op = "Vote" /\ last.result \notin {"Ok", "AlreadyVoted"}
    /\ AccountAt(accounts, VoterRecordAddress(last.signer, last.poll_id)).kind = "None"
    /\ VoterRecordsOf(accounts, 2) # {}

====
